---- MODULE Spec2Model ----
(***************************************************************************)
(* The range-remapping engine of 2023/day-5/src/main.rs: interval          *)
(* arithmetic, the augmented interval index (RangeTreeNode), the category  *)
(* map (RangeMap) and the pipeline (NumberMapper).                         *)
(*                                                                         *)
(* Numbers are u64 in the source.  Every number of the model is far below  *)
(* 2^64 and every subtraction of the source is guarded by a comparison or  *)
(* is the length of a range whose start is not after its end, so no        *)
(* operation of the model wraps or underflows.                             *)
(***************************************************************************)
EXTENDS Integers, Sequences, FiniteSets, TLC

VARIABLES
    root,            \* local `root` of interval_tree_test: the index it builds
    maps_by_source,  \* NumberMapper.maps_by_source: ValueKind -> Option<RangeMap>
    pc,              \* "idle", or the walk that is running: "map" / "map_range"
    call,            \* the operation called last, with its arguments
    mapped,          \* local `mapped` of NumberMapper::map
    current_kind,    \* local `current_kind` of NumberMapper::map_range
    mapped_ranges,   \* local `mapped_ranges` of NumberMapper::map_range
    ret              \* what the last completed call returned

vars == <<root, maps_by_source, pc, call, mapped, current_kind, mapped_ranges, ret>>

(***************************************************************************)
(* Bounds of the model.                                                    *)
(***************************************************************************)
\* Numbers of rule sources and of queries of the category-map level: 0..MaxNum.
MaxNum == 3
\* Longest rule list handed to RangeMap::new at the category-map level.
MaxRules == 2
\* Numbers of the queries of the pipeline level: 0..PipeMaxNum.
PipeMaxNum == 5
\* Numbers of rule sources and of queries of the index level: 0..TreeMaxNum.
TreeMaxNum == 3
\* Most rules put into an index of the index level.
MaxNodes == 3

(***************************************************************************)
(* Data.                                                                   *)
(***************************************************************************)
\* Option<T>: None, or Some(x).
None == <<>>
Some(x) == <<x>>

\* Three of the eight kinds of enum ValueKind.
Kinds == {"Seed", "Soil", "Humidity"}
\* Value of current_kind while no map_range call runs.
NoKind == "-"

MkValue(kind, number) == [kind |-> kind, number |-> number]
MkRange(start, end) == [start |-> start, end |-> end]
MkRangePair(source, target) == [source |-> source, target |-> target]

max(a, b) == IF a >= b THEN a ELSE b
min(a, b) == IF a <= b THEN a ELSE b

\* Range<u64>::contains: start <= n < end.
contains(range, n) == range.start <= n /\ n < range.end

(***************************************************************************)
(* Interval arithmetic.                                                    *)
(***************************************************************************)
\* subrange without the offset of the range inside the source.
subrange_from_target_start(self, range) ==
    IF self.source.start <= range.start /\ self.source.end >= range.end
    THEN LET range_length == range.end - range.start
             target_start == self.target.start
             target_end   == target_start + range_length
         IN  Some(MkRangePair(range, MkRange(target_start, target_end)))
    ELSE None

subrange(self, range) ==
    IF self.source.start <= range.start /\ self.source.end >= range.end
    THEN LET start_offset == range.start - self.source.start
             range_length == range.end - range.start
             target_start == self.target.start + start_offset
             target_end   == target_start + range_length
         IN  Some(MkRangePair(range, MkRange(target_start, target_end)))
    ELSE None

\* ranges_overlap with strict comparisons: ranges that only touch do not overlap.
ranges_overlap_strict(r1, r2) == r1.start < r2.end /\ r2.start < r1.end

ranges_overlap(r1, r2) == r1.start <= r2.end /\ r2.start <= r1.end

\* range_intersection without its overlap test.
range_intersection_unchecked(r1, r2) ==
    Some(MkRange(max(r1.start, r2.start), min(r1.end, r2.end)))

range_intersection(r1, r2) ==
    IF ranges_overlap(r1, r2)
    THEN Some(MkRange(max(r1.start, r2.start), min(r1.end, r2.end)))
    ELSE None

(***************************************************************************)
(* The interval index.  A tree is an arena: a sequence of nodes, the root  *)
(* at index 1, `left` and `right` the index of the child or 0 for None.    *)
(* An Option<RangeTreeNode> that is None is the empty arena.               *)
(***************************************************************************)
RangeTreeNode_new(range) ==
    [range |-> range, max |-> range.source.end, left |-> 0, right |-> 0]

\* insert going left on a rule whose source.start equals the node's.
RECURSIVE insert_ties_left(_, _, _)
insert_ties_left(tree, self, range) ==
    LET t1 == IF tree[self].max < range.source.end
              THEN [tree EXCEPT ![self].max = range.source.end]
              ELSE tree
        fresh == Len(tree) + 1
    IN  IF range.source.start <= tree[self].range.source.start
        THEN IF tree[self].left # 0
             THEN insert_ties_left(t1, tree[self].left, range)
             ELSE Append([t1 EXCEPT ![self].left = fresh], RangeTreeNode_new(range))
        ELSE IF tree[self].right # 0
             THEN insert_ties_left(t1, tree[self].right, range)
             ELSE Append([t1 EXCEPT ![self].right = fresh], RangeTreeNode_new(range))

\* insert without the update of max on the way down.
RECURSIVE insert_keeps_max(_, _, _)
insert_keeps_max(tree, self, range) ==
    LET fresh == Len(tree) + 1
    IN  IF range.source.start < tree[self].range.source.start
        THEN IF tree[self].left # 0
             THEN insert_keeps_max(tree, tree[self].left, range)
             ELSE Append([tree EXCEPT ![self].left = fresh], RangeTreeNode_new(range))
        ELSE IF tree[self].right # 0
             THEN insert_keeps_max(tree, tree[self].right, range)
             ELSE Append([tree EXCEPT ![self].right = fresh], RangeTreeNode_new(range))

RECURSIVE insert(_, _, _)
insert(tree, self, range) ==
    LET t1 == IF tree[self].max < range.source.end
              THEN [tree EXCEPT ![self].max = range.source.end]
              ELSE tree
        fresh == Len(tree) + 1
    IN  IF range.source.start < tree[self].range.source.start
        THEN IF tree[self].left # 0
             THEN insert(t1, tree[self].left, range)
             ELSE Append([t1 EXCEPT ![self].left = fresh], RangeTreeNode_new(range))
        ELSE IF tree[self].right # 0
             THEN insert(t1, tree[self].right, range)
             ELSE Append([t1 EXCEPT ![self].right = fresh], RangeTreeNode_new(range))

\* find_intersections pruning a child whose max is not above range.start.
RECURSIVE find_intersections_strict_prune(_, _, _)
find_intersections_strict_prune(tree, self, range) ==
    LET node == tree[self]
        intersection == range_intersection(node.range.source, range)
        own == IF intersection # None
               THEN subrange(node.range, intersection[1])
               ELSE <<>>
        from_left == IF node.left # 0 /\ tree[node.left].max > range.start
                     THEN find_intersections_strict_prune(tree, node.left, range)
                     ELSE <<>>
        from_right == IF node.right # 0 /\ tree[node.right].max > range.start
                      THEN find_intersections_strict_prune(tree, node.right, range)
                      ELSE <<>>
    IN  own \o from_left \o from_right

\* The result of subrange is pushed when it is Some: an Option is the sequence of
\* its zero or one values, so it is appended as it is.
RECURSIVE find_intersections(_, _, _)
find_intersections(tree, self, range) ==
    LET node == tree[self]
        intersection == range_intersection(node.range.source, range)
        own == IF intersection # None
               THEN subrange(node.range, intersection[1])
               ELSE <<>>
        from_left == IF node.left # 0 /\ tree[node.left].max >= range.start
                     THEN find_intersections(tree, node.left, range)
                     ELSE <<>>
        from_right == IF node.right # 0 /\ tree[node.right].max >= range.start
                      THEN find_intersections(tree, node.right, range)
                      ELSE <<>>
    IN  own \o from_left \o from_right

\* find_overlapping going left whenever there is a left child, whatever its max.
RECURSIVE find_overlapping_left_first(_, _, _)
find_overlapping_left_first(tree, self, range) ==
    LET node == tree[self]
    IN  IF ranges_overlap(node.range.source, range.source)
        THEN Some(node.range)
        ELSE IF node.left # 0
        THEN find_overlapping_left_first(tree, node.left, range)
        ELSE IF node.right # 0
        THEN find_overlapping_left_first(tree, node.right, range)
        ELSE None

RECURSIVE find_overlapping(_, _, _)
find_overlapping(tree, self, range) ==
    LET node == tree[self]
    IN  IF ranges_overlap(node.range.source, range.source)
        THEN Some(node.range)
        ELSE IF node.left # 0 /\ tree[node.left].max >= range.source.start
        THEN find_overlapping(tree, node.left, range)
        ELSE IF node.right # 0
        THEN find_overlapping(tree, node.right, range)
        ELSE None

(***************************************************************************)
(* The category map.                                                       *)
(***************************************************************************)
\* The loop of RangeMap::new over `ranges`, from position i with `tree` built so far.
RECURSIVE build_range_tree(_, _, _)
build_range_tree(ranges, i, tree) ==
    IF i > Len(ranges)
    THEN tree
    ELSE build_range_tree(ranges, i + 1,
            IF tree # None
            THEN insert(tree, 1, ranges[i])
            ELSE <<RangeTreeNode_new(ranges[i])>>)

RangeMap_new(source_kind, target_kind, ranges) ==
    [source_kind |-> source_kind,
     target_kind |-> target_kind,
     ranges      |-> ranges,
     range_tree  |-> build_range_tree(ranges, 1, None)]

\* find_pair in the order of the index: of the pairs from position i whose source
\* contains n, the first with the smallest source.start.
RECURSIVE find_pair_leftmost(_, _, _)
find_pair_leftmost(ranges, i, n) ==
    IF i > Len(ranges) THEN None
    ELSE LET later == find_pair_leftmost(ranges, i + 1, n)
         IN  IF ~contains(ranges[i].source, n) THEN later
             ELSE IF later # None /\ later[1].source.start < ranges[i].source.start
             THEN later
             ELSE Some(ranges[i])

\* find_pair searching from the back: the last pair whose source contains n.
RECURSIVE find_pair_last(_, _, _)
find_pair_last(ranges, i, n) ==
    IF i > Len(ranges) THEN None
    ELSE LET later == find_pair_last(ranges, i + 1, n)
         IN  IF later # None THEN later
             ELSE IF contains(ranges[i].source, n) THEN Some(ranges[i])
             ELSE None

\* Iterator::find over self.ranges: the first pair whose source contains n.
RECURSIVE find_pair(_, _, _)
find_pair(ranges, i, n) ==
    IF i > Len(ranges) THEN None
    ELSE IF contains(ranges[i].source, n) THEN Some(ranges[i])
    ELSE find_pair(ranges, i + 1, n)

\* value_for failing on a number that no rule holds.
value_for_unmatched_none(self, value) ==
    IF value.kind # self.source_kind
    THEN None
    ELSE LET range_pair == find_pair(self.ranges, 1, value.number)
         IN  IF range_pair # None
             THEN LET offset == value.number - range_pair[1].source.start
                      target_number == range_pair[1].target.start + offset
                  IN  Some(MkValue(self.target_kind, target_number))
             ELSE None

value_for(self, value) ==
    IF value.kind # self.source_kind
    THEN None
    ELSE LET range_pair == find_pair(self.ranges, 1, value.number)
         IN  IF range_pair # None
             THEN LET offset == value.number - range_pair[1].source.start
                      target_number == range_pair[1].target.start + offset
                  IN  Some(MkValue(self.target_kind, target_number))
             ELSE Some(MkValue(self.target_kind, value.number))

\* slice::sort_by_key(|r| r.source.start): a stable sort, ascending.
RECURSIVE sort_by_key(_)
sort_by_key(s) ==
    IF s = <<>> THEN <<>>
    ELSE LET front == sort_by_key(SubSeq(s, 1, Len(s) - 1))
             x == s[Len(s)]
             k == Cardinality({j \in 1..Len(front) :
                                  front[j].source.start <= x.source.start})
         IN  SubSeq(front, 1, k) \o <<x>> \o SubSeq(front, k + 1, Len(front))

\* emit_intersections without the ranges between one intersection and the next.
RECURSIVE emit_intersections_no_gaps(_, _)
emit_intersections_no_gaps(intersections, i) ==
    IF i > Len(intersections) THEN <<>>
    ELSE <<intersections[i].target>> \o emit_intersections_no_gaps(intersections, i + 1)

\* The while loop of ranges_for over the sorted intersections, from position i.
RECURSIVE emit_intersections(_, _)
emit_intersections(intersections, i) ==
    IF i > Len(intersections) THEN <<>>
    ELSE LET intersection == intersections[i]
             gap == IF i < Len(intersections)
                       /\ intersection.source.end < intersections[i + 1].source.start
                    THEN <<MkRange(intersection.source.end,
                                   intersections[i + 1].source.start)>>
                    ELSE <<>>
         IN  <<intersection.target>> \o gap \o emit_intersections(intersections, i + 1)

ranges_for(self, range) ==
    IF self.range_tree = None
    THEN <<>>
    ELSE LET intersections == sort_by_key(find_intersections(self.range_tree, 1, range))
         IN  IF intersections = <<>>
             THEN <<>>
             ELSE LET first == intersections[1]
                      last  == intersections[Len(intersections)]
                      head == IF first.source.start > range.start
                              THEN <<MkRange(range.start, first.source.start)>>
                              ELSE <<>>
                      tail == IF last.source.end < range.end
                              THEN <<MkRange(last.source.end, range.end)>>
                              ELSE <<>>
                  IN  head \o emit_intersections(intersections, 1) \o tail

(***************************************************************************)
(* The pipeline.                                                           *)
(***************************************************************************)
\* No call is running and the result of the last one has been taken: the caller
\* is about to make its next call.
Ready == pc = "idle" /\ call.op = "none"

\* The caller takes the value a call returned.
ResultTaken ==
    /\ pc = "idle"
    /\ call.op # "none"
    /\ call' = [op |-> "none"]
    /\ ret' = None
    /\ UNCHANGED <<root, maps_by_source, pc, mapped, current_kind, mapped_ranges>>

\* NumberMapper::insert keeping the map already registered for the source kind
\* (HashMap::entry(..).or_insert).
NumberMapper_insert_keeps_earlier(range_map) ==
    /\ Ready
    /\ maps_by_source' = IF maps_by_source[range_map.source_kind] = None
                         THEN [maps_by_source EXCEPT ![range_map.source_kind] = Some(range_map)]
                         ELSE maps_by_source
    /\ call' = [op |-> "insert", range_map |-> range_map,
                replaced |-> maps_by_source[range_map.source_kind]]
    /\ UNCHANGED <<root, pc, mapped, current_kind, mapped_ranges, ret>>

\* HashMap::insert keyed by the map's source kind: an earlier map of that kind is
\* replaced.  `replaced` is the earlier map, which HashMap::insert returns and
\* NumberMapper::insert drops.
NumberMapper_insert(range_map) ==
    /\ Ready
    /\ maps_by_source' = [maps_by_source EXCEPT ![range_map.source_kind] = Some(range_map)]
    /\ call' = [op |-> "insert", range_map |-> range_map,
                replaced |-> maps_by_source[range_map.source_kind]]
    /\ UNCHANGED <<root, pc, mapped, current_kind, mapped_ranges, ret>>

\* A call of RangeMap::value_for on the map registered for source_kind.
ValueFor(source_kind, value) ==
    /\ Ready
    /\ maps_by_source[source_kind] # None
    /\ call' = [op |-> "value_for", source_kind |-> source_kind, value |-> value]
    /\ ret' = value_for(maps_by_source[source_kind][1], value)
    /\ UNCHANGED <<root, maps_by_source, pc, mapped, current_kind, mapped_ranges>>

\* A call of RangeMap::ranges_for on the map registered for source_kind.
RangesFor(source_kind, range) ==
    /\ Ready
    /\ maps_by_source[source_kind] # None
    /\ call' = [op |-> "ranges_for", source_kind |-> source_kind, range |-> range]
    /\ ret' = ranges_for(maps_by_source[source_kind][1], range)
    /\ UNCHANGED <<root, maps_by_source, pc, mapped, current_kind, mapped_ranges>>

\* A call of RangeTreeNode::find_intersections on the root of the map's index.
FindIntersections(source_kind, range) ==
    /\ Ready
    /\ maps_by_source[source_kind] # None
    /\ maps_by_source[source_kind][1].range_tree # None
    /\ call' = [op |-> "find_intersections", source_kind |-> source_kind, range |-> range]
    /\ ret' = find_intersections(maps_by_source[source_kind][1].range_tree, 1, range)
    /\ UNCHANGED <<root, maps_by_source, pc, mapped, current_kind, mapped_ranges>>

\* NumberMapper::map is entered: `mapped = Some(value.clone())`.
MapCall(value, target_kind) ==
    /\ Ready
    /\ pc' = "map"
    /\ call' = [op |-> "map", value |-> value, target_kind |-> target_kind]
    /\ mapped' = Some(value)
    /\ ret' = None
    /\ UNCHANGED <<root, maps_by_source, current_kind, mapped_ranges>>

\* MapStep with an `if` for the `while`: the value is returned after one hop.
MapStep_single_hop ==
    /\ pc = "map"
    /\ IF mapped # None /\ mapped[1].kind # call.target_kind
       THEN LET mapped_val == mapped[1]
                range_map == maps_by_source[mapped_val.kind]
            IN  /\ ret' = IF range_map # None
                          THEN value_for(range_map[1], mapped_val)
                          ELSE None
                /\ mapped' = None
                /\ pc' = "idle"
       ELSE /\ ret' = mapped
            /\ mapped' = None
            /\ pc' = "idle"
    /\ UNCHANGED <<root, maps_by_source, call, current_kind, mapped_ranges>>

\* MapStep without `mapped = None` before the break: a walk that finds no map
\* returns the value it stands on.
MapStep_keeps_value ==
    /\ pc = "map"
    /\ IF mapped # None /\ mapped[1].kind # call.target_kind
       THEN LET mapped_val == mapped[1]
                range_map == maps_by_source[mapped_val.kind]
            IN  IF range_map # None
                THEN /\ mapped' = value_for(range_map[1], mapped_val)
                     /\ UNCHANGED <<pc, ret>>
                ELSE /\ mapped' = None
                     /\ pc' = "idle"
                     /\ ret' = mapped
       ELSE /\ ret' = mapped
            /\ mapped' = None
            /\ pc' = "idle"
    /\ UNCHANGED <<root, maps_by_source, call, current_kind, mapped_ranges>>

\* One evaluation of the while condition of NumberMapper::map, then either one
\* iteration of its body or the return of `mapped`.
MapStep ==
    /\ pc = "map"
    /\ IF mapped # None /\ mapped[1].kind # call.target_kind
       THEN LET mapped_val == mapped[1]
                range_map == maps_by_source[mapped_val.kind]
            IN  IF range_map # None
                THEN /\ mapped' = value_for(range_map[1], mapped_val)
                     /\ UNCHANGED <<pc, ret>>
                ELSE \* mapped = None; break; and the return of None
                     /\ mapped' = None
                     /\ pc' = "idle"
                     /\ ret' = None
       ELSE /\ ret' = mapped
            /\ mapped' = None
            /\ pc' = "idle"
    /\ UNCHANGED <<root, maps_by_source, call, current_kind, mapped_ranges>>

\* NumberMapper::map_range is entered.
MapRangeCall(range, source_kind, target_kind) ==
    /\ Ready
    /\ pc' = "map_range"
    /\ call' = [op |-> "map_range", range |-> range,
                source_kind |-> source_kind, target_kind |-> target_kind]
    /\ current_kind' = source_kind
    /\ mapped_ranges' = <<range>>
    /\ ret' = None
    /\ UNCHANGED <<root, maps_by_source, mapped>>

\* The while condition of map_range: enter the body, or return mapped_ranges.
MapRangeHead ==
    /\ pc = "map_range"
    /\ IF mapped_ranges # <<>> /\ current_kind # call.target_kind
       THEN /\ pc' = "map_range_body"
            /\ UNCHANGED <<current_kind, mapped_ranges, ret>>
       ELSE /\ ret' = mapped_ranges
            /\ pc' = "idle"
            /\ current_kind' = NoKind
            /\ mapped_ranges' = <<>>
    /\ UNCHANGED <<root, maps_by_source, call, mapped>>

\* mapped_ranges.iter().map(|r| range_map.ranges_for(r)).flatten().collect()
RECURSIVE flat_map_ranges_for(_, _, _)
flat_map_ranges_for(range_map, ranges, i) ==
    IF i > Len(ranges) THEN <<>>
    ELSE ranges_for(range_map, ranges[i]) \o flat_map_ranges_for(range_map, ranges, i + 1)

\* The body of the while loop of map_range: `continue` when no map is registered
\* for current_kind, otherwise one hop.  Either way control is back at the condition.
MapRangeBody ==
    /\ pc = "map_range_body"
    /\ pc' = "map_range"
    /\ LET range_map == maps_by_source[current_kind]
       IN  IF range_map = None
           THEN UNCHANGED <<current_kind, mapped_ranges>>
           ELSE /\ mapped_ranges' = flat_map_ranges_for(range_map[1], mapped_ranges, 1)
                /\ current_kind' = range_map[1].target_kind
    /\ UNCHANGED <<root, maps_by_source, call, mapped, ret>>

(***************************************************************************)
(* The reduction over seed ranges.  map_range is here the function of its  *)
(* arguments that the walk above computes step by step; `self` is the      *)
(* mapper's maps_by_source.  The walks are those of pipelines in which no  *)
(* kind is reached twice, so a walk makes at most one hop per kind.        *)
(***************************************************************************)
\* The while loop of map_range, with `mapped_ranges` = ranges and `current_kind` =
\* kind, is left: the working set becomes empty or the target kind is reached
\* before a kind with no map is met (there the loop spins on `continue`).
RECURSIVE map_range_returns(_, _, _, _, _)
map_range_returns(self, ranges, kind, target_kind, fuel) ==
    IF ranges # <<>> /\ kind # target_kind
    THEN LET range_map == self[kind]
         IN  IF range_map = None \/ fuel = 0
             THEN FALSE
             ELSE map_range_returns(self,
                                    flat_map_ranges_for(range_map[1], ranges, 1),
                                    range_map[1].target_kind, target_kind, fuel - 1)
    ELSE TRUE

\* The value of `mapped_ranges` when the while loop of map_range is left.
RECURSIVE map_range_while(_, _, _, _, _)
map_range_while(self, ranges, kind, target_kind, fuel) ==
    IF ranges # <<>> /\ kind # target_kind
    THEN LET range_map == self[kind]
         IN  IF range_map = None \/ fuel = 0
             THEN ranges
             ELSE map_range_while(self,
                                  flat_map_ranges_for(range_map[1], ranges, 1),
                                  range_map[1].target_kind, target_kind, fuel - 1)
    ELSE ranges

map_range(self, range, source_kind, target_kind) ==
    map_range_while(self, <<range>>, source_kind, target_kind, Cardinality(DOMAIN self))

\* Iterator::flatten over a sequence of vectors, from position i.
RECURSIVE flatten(_, _)
flatten(vecs, i) ==
    IF i > Len(vecs) THEN <<>> ELSE vecs[i] \o flatten(vecs, i + 1)

\* Iterator::min over a sequence of numbers, from position i with `least` so far.
RECURSIVE iter_min(_, _, _)
iter_min(numbers, i, least) ==
    IF i > Len(numbers) THEN least
    ELSE iter_min(numbers, i + 1,
                  IF least = None \/ numbers[i] < least[1] THEN Some(numbers[i]) ELSE least)

\* find_smallest_location_ranges taking the last start for the least.
find_smallest_location_ranges_last(seed_ranges, mapper) ==
    LET produced == flatten([i \in 1..Len(seed_ranges) |->
                                map_range(mapper, seed_ranges[i], "Seed", "Location")], 1)
    IN  IF produced = <<>> THEN None ELSE Some(produced[Len(produced)].start)

find_smallest_location_ranges(seed_ranges, mapper) ==
    LET produced == flatten([i \in 1..Len(seed_ranges) |->
                                map_range(mapper, seed_ranges[i], "Seed", "Location")], 1)
    IN  iter_min([i \in 1..Len(produced) |-> produced[i].start], 1, None)

\* A call of find_smallest_location_ranges on the mapper.  It returns when every
\* map_range call it makes returns; otherwise control never leaves it.
FindSmallestLocationRanges(seed_ranges) ==
    /\ Ready
    /\ call' = [op |-> "find_smallest_location_ranges", seed_ranges |-> seed_ranges]
    /\ IF \A i \in 1..Len(seed_ranges) :
             map_range_returns(maps_by_source, <<seed_ranges[i]>>, "Seed", "Location",
                               Cardinality(DOMAIN maps_by_source))
       THEN /\ pc' = "idle"
            /\ ret' = find_smallest_location_ranges(seed_ranges, maps_by_source)
       ELSE /\ pc' = "find_smallest_location_ranges"
            /\ ret' = None
    /\ UNCHANGED <<root, maps_by_source, mapped, current_kind, mapped_ranges>>

(***************************************************************************)
(* Calls on an index held by its root, as interval_tree_test makes them,   *)
(* and calls of the functions of the interval arithmetic.                  *)
(***************************************************************************)
\* let mut root = RangeTreeNode::new(range)
TreeNew(range) ==
    /\ Ready
    /\ root = None
    /\ root' = <<RangeTreeNode_new(range)>>
    /\ call' = [op |-> "RangeTreeNode::new", range |-> range]
    /\ ret' = None
    /\ UNCHANGED <<maps_by_source, pc, mapped, current_kind, mapped_ranges>>

\* root.insert(range)
TreeInsert(range) ==
    /\ Ready
    /\ root # None
    /\ root' = insert(root, 1, range)
    /\ call' = [op |-> "root.insert", range |-> range]
    /\ ret' = None
    /\ UNCHANGED <<maps_by_source, pc, mapped, current_kind, mapped_ranges>>

\* root.find_intersections(&range)
TreeFindIntersections(range) ==
    /\ Ready
    /\ root # None
    /\ call' = [op |-> "root.find_intersections", range |-> range]
    /\ ret' = find_intersections(root, 1, range)
    /\ UNCHANGED <<root, maps_by_source, pc, mapped, current_kind, mapped_ranges>>

\* root.find_overlapping(&range)
TreeFindOverlapping(range) ==
    /\ Ready
    /\ root # None
    /\ call' = [op |-> "root.find_overlapping", range |-> range]
    /\ ret' = find_overlapping(root, 1, range)
    /\ UNCHANGED <<root, maps_by_source, pc, mapped, current_kind, mapped_ranges>>

\* self.subrange(&range)
Subrange(self, range) ==
    /\ Ready
    /\ call' = [op |-> "subrange", self |-> self, range |-> range]
    /\ ret' = subrange(self, range)
    /\ UNCHANGED <<root, maps_by_source, pc, mapped, current_kind, mapped_ranges>>

\* range_intersection(&r1, &r2)
RangeIntersection(r1, r2) ==
    /\ Ready
    /\ call' = [op |-> "range_intersection", r1 |-> r1, r2 |-> r2]
    /\ ret' = range_intersection(r1, r2)
    /\ UNCHANGED <<root, maps_by_source, pc, mapped, current_kind, mapped_ranges>>

(***************************************************************************)
(* Inputs.                                                                 *)
(***************************************************************************)
\* Well-formed ranges (start <= end) over 0..n.
RangesUpTo(n) == {r \in {MkRange(s, e) : s \in 0..n, e \in 0..n} : r.start <= r.end}

\* Start of a rule's target, the first number of a line of a map block.
TargetStarts == {0, 10}

\* The rules parse_range_map builds from (target_start, source_start, length).
Rules == {MkRangePair(src, MkRange(t, t + (src.end - src.start))) :
             src \in RangesUpTo(MaxNum), t \in TargetStarts}

\* Rule lists of at most MaxRules rules.
RuleLists == UNION {[1..n -> Rules] : n \in 0..MaxRules}

\* The rules of the index level: any source over 0..TreeMaxNum, the target of the
\* same length starting at 10.
TreeRules == {MkRangePair(src, MkRange(10, 10 + (src.end - src.start))) :
                 src \in RangesUpTo(TreeMaxNum)}

Values(n) == {MkValue(k, x) : k \in Kinds, x \in 0..n}

\* The ranges of value_mapper_test.
seeds_1 == MkRange(1, 2)
soils_1 == MkRange(4, 6)
seeds_2 == MkRange(5, 7)
soils_2 == MkRange(7, 9)
humidities == MkRange(9, 10)

\* The rules of interval_tree_test, in the order it inserts them.
intervals ==
    << MkRangePair(MkRange(100, 200), MkRange(50, 150)),
       MkRangePair(MkRange(32, 48), MkRange(62, 78)),
       MkRangePair(MkRange(10, 20), MkRange(90, 100)),
       MkRangePair(MkRange(255, 260), MkRange(100, 105)),
       MkRangePair(MkRange(400, 420), MkRange(800, 820)) >>

\* The query of interval_tree_test.
test_query == MkRange(120, 300)

\* The numbers at which the rules and the query of interval_tree_test start or end.
TestNumbers ==
    {intervals[i].source.start : i \in 1..Len(intervals)}
        \cup {intervals[i].source.end : i \in 1..Len(intervals)}
        \cup {test_query.start, test_query.end}

\* Queries on the index of interval_tree_test: the ranges between those numbers.
TestQueries ==
    {r \in {MkRange(s, e) : s \in TestNumbers, e \in TestNumbers} : r.start <= r.end}

\* The rule lists of the pipeline level: those of value_mapper_test and the empty list.
PipeRuleLists ==
    { <<>>,
      <<MkRangePair(seeds_1, soils_1), MkRangePair(seeds_2, soils_2)>>,
      <<MkRangePair(soils_1, humidities)>> }

(***************************************************************************)
(* Specifications.                                                         *)
(***************************************************************************)
Init ==
    /\ root = None
    /\ maps_by_source = [k \in Kinds |-> None]
    /\ pc = "idle"
    /\ call = [op |-> "none"]
    /\ mapped = None
    /\ current_kind = NoKind
    /\ mapped_ranges = <<>>
    /\ ret = None

\* The category-map level: one seed-to-soil map, built once from any rule list and
\* not changed afterwards, and the queries of a category map.
Next ==
    \/ /\ maps_by_source["Seed"] = None
       /\ \E ranges \in RuleLists : NumberMapper_insert(RangeMap_new("Seed", "Soil", ranges))
    \/ \E k \in Kinds, value \in Values(MaxNum) : ValueFor(k, value)
    \/ \E k \in Kinds, range \in RangesUpTo(MaxNum) : RangesFor(k, range)
    \/ \E k \in Kinds, range \in RangesUpTo(MaxNum) : FindIntersections(k, range)
    \/ ResultTaken

Spec == Init /\ [][Next]_vars

\* The interval level: the two functions of the interval arithmetic on any inputs.
IntervalNext ==
    \/ \E self \in Rules, range \in RangesUpTo(MaxNum) : Subrange(self, range)
    \/ \E r1 \in RangesUpTo(MaxNum), r2 \in RangesUpTo(MaxNum) : RangeIntersection(r1, r2)
    \/ ResultTaken

IntervalSpec == Init /\ [][IntervalNext]_vars

\* The index level: an index made by RangeTreeNode::new and grown by inserts of any
\* rules in any order, and the two searches on it.
TreeNext ==
    \/ \E range \in TreeRules : TreeNew(range)
    \/ \E range \in TreeRules : Len(root) < MaxNodes /\ TreeInsert(range)
    \/ \E range \in RangesUpTo(TreeMaxNum) : TreeFindIntersections(range)
    \/ \E range \in TreeRules : TreeFindOverlapping(range)
    \/ ResultTaken

TreeSpec == Init /\ [][TreeNext]_vars

\* interval_tree_test: the index grown from its five rules in their order and then
\* queried, and a seed-to-soil map built from the same rules and queried.
TestNext ==
    \/ root = None /\ TreeNew(intervals[1])
    \/ Len(root) < Len(intervals) /\ TreeInsert(intervals[Len(root) + 1])
    \/ /\ Len(root) = Len(intervals)
       /\ \E range \in TestQueries : TreeFindIntersections(range)
    \/ /\ maps_by_source["Seed"] = None
       /\ NumberMapper_insert(RangeMap_new("Seed", "Soil", intervals))
    \/ \E range \in TestQueries : RangesFor("Seed", range)
    \/ ResultTaken

TestSpec == Init /\ [][TestNext]_vars

\* The kinds of the seed-to-location pipelines.
LocationKinds == Kinds \cup {"Location"}

\* The hops of the seed-to-location pipelines: none leads back.
LocationHops == {<<"Seed", "Soil">>, <<"Seed", "Location">>, <<"Soil", "Location">>}

\* The seed ranges of a call: at most two ranges over 0..PipeMaxNum.
SeedRangeLists == UNION {[1..n -> RangesUpTo(PipeMaxNum)] : n \in 0..2}

LocationInit ==
    /\ root = None
    /\ maps_by_source = [k \in LocationKinds |-> None]
    /\ pc = "idle"
    /\ call = [op |-> "none"]
    /\ mapped = None
    /\ current_kind = NoKind
    /\ mapped_ranges = <<>>
    /\ ret = None

\* The reduction level: maps from seed towards location, and the reduction over
\* seed ranges.
LocationNext ==
    \/ \E hop \in LocationHops, ranges \in PipeRuleLists :
           NumberMapper_insert(RangeMap_new(hop[1], hop[2], ranges))
    \/ \E seed_ranges \in SeedRangeLists : FindSmallestLocationRanges(seed_ranges)
    \/ ResultTaken

LocationSpec == LocationInit /\ [][LocationNext]_vars

\* The pipeline level: maps between any two kinds, and the two walks.
PipeNext ==
    \/ \E sk \in Kinds, tk \in Kinds, ranges \in PipeRuleLists :
           NumberMapper_insert(RangeMap_new(sk, tk, ranges))
    \/ \E value \in Values(PipeMaxNum), tk \in Kinds : MapCall(value, tk)
    \/ MapStep
    \/ \E range \in RangesUpTo(PipeMaxNum), tk \in Kinds :
           MapRangeCall(range, "Seed", tk)
    \/ MapRangeHead
    \/ MapRangeBody
    \/ ResultTaken

PipeSpec == Init /\ [][PipeNext]_vars

\* The program runs on one thread and never waits: a walk that can take a step takes it.
FairPipeSpec ==
    PipeSpec /\ WF_vars(MapStep) /\ WF_vars(MapRangeHead) /\ WF_vars(MapRangeBody)

(***************************************************************************)
(* Properties of the category map, under Spec.                             *)
(***************************************************************************)
\* The map a value_for, ranges_for or find_intersections call was made on.
CalledMap == maps_by_source[call.source_kind][1]

Length(range) == range.end - range.start

RECURSIVE SumOfLengths(_)
SumOfLengths(ranges) ==
    IF ranges = <<>> THEN 0
    ELSE Length(ranges[1]) + SumOfLengths(SubSeq(ranges, 2, Len(ranges)))

\* The image of the source range `piece` under `rule`: the same length, moved by
\* the rule's offset target.start - source.start.
Image(rule, piece) ==
    MkRange(rule.target.start + (piece.start - rule.source.start),
            rule.target.start + (piece.start - rule.source.start) + Length(piece))

Within(piece, range) == range.start <= piece.start /\ piece.end <= range.end

\* C1: for every category map and every range s..e with s <= e, the lengths of the
\* ranges returned by ranges_for(s..e) sum to e - s.
C1_RangesForKeepsLength ==
    call.op = "ranges_for" => SumOfLengths(ret) = Length(call.range)

\* The source piece of the i-th output range when the outputs are laid end to end
\* from the start of the query.
Piece(query, out, i) ==
    MkRange(query.start + SumOfLengths(SubSeq(out, 1, i - 1)),
            query.start + SumOfLengths(SubSeq(out, 1, i)))

\* C2: the output of ranges_for is, in order, the image of consecutive pieces that
\* start at query.start, each starting where the one before ends, the last ending
\* at query.end; each output range is its piece unchanged or the image of its piece
\* under a rule whose source holds the piece.
C2_RangesForPartitionsQuery ==
    call.op = "ranges_for" =>
        /\ query_end:: Piece(call.range, ret, Len(ret)).end = call.range.end
        /\ \A i \in 1..Len(ret) :
              LET piece == Piece(call.range, ret, i)
              IN  \/ ret[i] = piece
                  \/ \E j \in 1..Len(CalledMap.ranges) :
                        /\ Within(piece, CalledMap.ranges[j].source)
                        /\ ret[i] = Image(CalledMap.ranges[j], piece)

\* What value_for owes for number p under rule: the target kind and the number
\* moved by the rule's offset.
RuleValue(rule, p) ==
    Some(MkValue(CalledMap.target_kind, rule.target.start + (p - rule.source.start)))

\* C3 as stated: for every rule R of the map and every p in R.source,
\* value_for((source kind, p)) is (target kind, R.target.start + (p - R.source.start)).
C3_EveryRuleMapsItsPoints ==
    (call.op = "value_for" /\ call.value.kind = CalledMap.source_kind) =>
        \A j \in 1..Len(CalledMap.ranges) :
            contains(CalledMap.ranges[j].source, call.value.number)
                => ret = RuleValue(CalledMap.ranges[j], call.value.number)

\* C3 amended: the same for the rule R that is the first of the list whose source
\* holds p.
C3_FirstRuleMapsItsPoints ==
    (call.op = "value_for" /\ call.value.kind = CalledMap.source_kind) =>
        \A j \in 1..Len(CalledMap.ranges) :
            (/\ contains(CalledMap.ranges[j].source, call.value.number)
             /\ \A h \in 1..(j - 1) :
                    ~contains(CalledMap.ranges[h].source, call.value.number))
                => ret = RuleValue(CalledMap.ranges[j], call.value.number)

\* value_for was called on a number held by the sources of two rules with
\* different offsets, and returned the image under the first.
C3_Witness ==
    /\ call.op = "value_for"
    /\ call.value.kind = CalledMap.source_kind
    /\ Len(CalledMap.ranges) = 2
    /\ contains(CalledMap.ranges[1].source, call.value.number)
    /\ contains(CalledMap.ranges[2].source, call.value.number)
    /\ RuleValue(CalledMap.ranges[1], call.value.number)
           # RuleValue(CalledMap.ranges[2], call.value.number)
    /\ ret = RuleValue(CalledMap.ranges[1], call.value.number)

\* C4: value_for returns nothing exactly when the value's kind is not the map's
\* source kind; when the kind matches and no rule's source holds the number, it
\* returns the same number in the target kind.
C4_ValueForNoneOnlyOnKind ==
    call.op = "value_for" =>
        /\ (ret = None) <=> (call.value.kind # CalledMap.source_kind)
        /\ (/\ call.value.kind = CalledMap.source_kind
            /\ \A j \in 1..Len(CalledMap.ranges) :
                   ~contains(CalledMap.ranges[j].source, call.value.number))
               => ret = Some(MkValue(CalledMap.target_kind, call.value.number))

\* value_for was called with the map's kind on a number that no rule of a non-empty
\* rule list holds, and returned that number.
C4_Witness ==
    /\ call.op = "value_for"
    /\ call.value.kind = CalledMap.source_kind
    /\ CalledMap.ranges # <<>>
    /\ \A j \in 1..Len(CalledMap.ranges) :
           /\ Length(CalledMap.ranges[j].source) > 0
           /\ ~contains(CalledMap.ranges[j].source, call.value.number)
    /\ ret = Some(MkValue(CalledMap.target_kind, call.value.number))

\* C5: a category map built from the empty rule list maps every value of its
\* source kind to the same number in the target kind, and every range I to the
\* single range I.
C5_EmptyMapIsIdentity ==
    (call.op \in {"value_for", "ranges_for"} /\ CalledMap.ranges = <<>>) =>
        /\ (call.op = "value_for" /\ call.value.kind = CalledMap.source_kind)
               => ret = Some(MkValue(CalledMap.target_kind, call.value.number))
        /\ call.op = "ranges_for" => ret = <<call.range>>

\* C10: every pair find_intersections(query) returns comes from a rule of the index
\* whose source overlaps the query: its source is the intersection of the rule's
\* source with the query and its target is that source moved by the rule's offset.
C10_IntersectionsComeFromOverlappingRules ==
    call.op = "find_intersections" =>
        \A i \in 1..Len(ret) :
            \E j \in 1..Len(CalledMap.ranges) :
                LET rule == CalledMap.ranges[j]
                IN  /\ rule.source.start <= call.range.end
                    /\ call.range.start <= rule.source.end
                    /\ ret[i].source.start = max(rule.source.start, call.range.start)
                    /\ ret[i].source.end = min(rule.source.end, call.range.end)
                    /\ ret[i].target = Image(rule, ret[i].source)

\* find_intersections returned a pair for one rule of a two-rule index and none
\* for the other, whose source lies off the query.
C10_Witness ==
    /\ call.op = "find_intersections"
    /\ Len(CalledMap.ranges) = 2
    /\ Len(ret) = 1
    /\ Length(ret[1].source) > 0
    /\ ret[1].source # call.range
    /\ \E j \in 1..2 : ~ranges_overlap(CalledMap.ranges[j].source, call.range)

(***************************************************************************)
(* Properties of the pipeline, under PipeSpec and FairPipeSpec.            *)
(***************************************************************************)
\* The walk the pipeline is to make: value_for of the map registered for the
\* value's kind, again and again, until the kind is target_kind; nothing when no
\* map is registered for a kind on the way.
RECURSIVE HopByHop(_, _)
HopByHop(value, target_kind) ==
    IF value.kind = target_kind THEN Some(value)
    ELSE IF maps_by_source[value.kind] = None THEN None
    ELSE LET hop == value_for(maps_by_source[value.kind][1], value)
         IN  IF hop = None THEN None ELSE HopByHop(hop[1], target_kind)

\* The hop-by-hop walk of value to target_kind ends, at the target or at a kind with
\* no map, within `fuel` hops.
RECURSIVE WalkEnds(_, _, _)
WalkEnds(value, target_kind, fuel) ==
    IF value.kind = target_kind \/ maps_by_source[value.kind] = None THEN TRUE
    ELSE IF fuel = 0 THEN FALSE
    ELSE LET hop == value_for(maps_by_source[value.kind][1], value)
         IN  IF hop = None THEN TRUE ELSE WalkEnds(hop[1], target_kind, fuel - 1)

\* The map registered for source_kind goes to target_kind with exactly these rules.
Registered(source_kind, target_kind, ranges) ==
    /\ maps_by_source[source_kind] # None
    /\ maps_by_source[source_kind][1].target_kind = target_kind
    /\ maps_by_source[source_kind][1].ranges = ranges

\* The pipeline of value_mapper_test.
TestPipeline ==
    /\ Registered("Seed", "Soil",
                  <<MkRangePair(seeds_1, soils_1), MkRangePair(seeds_2, soils_2)>>)
    /\ Registered("Soil", "Humidity", <<MkRangePair(soils_1, humidities)>>)
    /\ maps_by_source["Humidity"] = None

\* C6: what map(value, target) returns is the hop-by-hop walk of value to target
\* (a walk that ends: no kind is visited twice); in the pipeline of value_mapper_test, map(seed 1, humidity) is humidity 9 and
\* map(seed 5, soil) is soil 7.
C6_MapWalksHopByHop ==
    (pc = "idle" /\ call.op = "map") =>
        /\ WalkEnds(call.value, call.target_kind, Cardinality(Kinds))
        /\ ret = HopByHop(call.value, call.target_kind)
        /\ (TestPipeline /\ call.value = MkValue("Seed", 1) /\ call.target_kind = "Humidity")
               => ret = Some(MkValue("Humidity", 9))
        /\ (TestPipeline /\ call.value = MkValue("Seed", 5) /\ call.target_kind = "Soil")
               => ret = Some(MkValue("Soil", 7))

\* map(seed 1, humidity) has returned humidity 9 in the pipeline of value_mapper_test.
C6_Witness ==
    /\ pc = "idle"
    /\ call.op = "map"
    /\ TestPipeline
    /\ call.value = MkValue("Seed", 1)
    /\ call.target_kind = "Humidity"
    /\ ret = Some(MkValue("Humidity", 9))

\* Following the registered maps from kind k ends, within `fuel` hops, at a kind
\* with no map.
RECURSIVE ChainEnds(_, _)
ChainEnds(k, fuel) ==
    IF maps_by_source[k] = None THEN TRUE
    ELSE IF fuel = 0 THEN FALSE
    ELSE ChainEnds(maps_by_source[k][1].target_kind, fuel - 1)

\* No kind is reached again by following the registered maps.
Acyclic == \A k \in Kinds : ChainEnds(k, Cardinality(Kinds))

\* The walk stands on a value that is not of the target kind and for whose kind no
\* map is registered.
DeadEnd ==
    /\ mapped # None
    /\ mapped[1].kind # call.target_kind
    /\ maps_by_source[mapped[1].kind] = None

\* The number of maps ahead of kind k on the chain of registered maps.
RECURSIVE HopsLeft(_, _)
HopsLeft(k, fuel) ==
    IF maps_by_source[k] = None \/ fuel = 0 THEN 0
    ELSE 1 + HopsLeft(maps_by_source[k][1].target_kind, fuel - 1)

\* C7: in an acyclic pipeline a map call returns: every step of the walk either
\* returns or moves to a kind with fewer maps ahead of it, which can happen at most
\* once per kind.  The call returns nothing exactly when the walk stands on a kind
\* other than the target with no map registered, and a hop never loses the value: a
\* number that no rule holds is carried over unchanged.
C7_MapDeadEnd ==
    [][(pc = "map" /\ Acyclic) =>
          /\ mapped # None
          /\ pc' \in {"idle", "map"}
          /\ pc' = "idle" => ((ret' = None) <=> DeadEnd)
          /\ pc' = "map" =>
               /\ mapped' # None
               /\ HopsLeft(mapped'[1].kind, Cardinality(Kinds))
                      < HopsLeft(mapped[1].kind, Cardinality(Kinds))
               /\ (find_pair(maps_by_source[mapped[1].kind][1].ranges, 1,
                             mapped[1].number) = None)
                      => mapped'[1].number = mapped[1].number]_vars

\* In an acyclic pipeline a map call took a hop on a number that no rule of a
\* non-empty rule list holds, then found no map and returned nothing.
C7_Witness ==
    /\ pc = "idle"
    /\ call.op = "map"
    /\ Acyclic
    /\ ret = None
    /\ maps_by_source[call.value.kind] # None
    /\ maps_by_source[call.value.kind][1].ranges # <<>>
    /\ maps_by_source[call.value.kind][1].target_kind # call.target_kind
    /\ \A j \in 1..Len(maps_by_source[call.value.kind][1].ranges) :
           ~contains(maps_by_source[call.value.kind][1].ranges[j].source, call.value.number)

\* C8: in an acyclic pipeline every map_range call returns, also when no map is
\* registered for the current kind before the target is reached.
C8_MapRangeReturns ==
    (pc = "map_range" /\ Acyclic) ~> (pc = "idle")

\* Following the registered maps from kind k reaches target_kind within `fuel` hops.
RECURSIVE Reaches(_, _, _)
Reaches(k, target_kind, fuel) ==
    IF k = target_kind THEN TRUE
    ELSE IF maps_by_source[k] = None \/ fuel = 0 THEN FALSE
    ELSE Reaches(maps_by_source[k][1].target_kind, target_kind, fuel - 1)

\* The concatenation, in order, of a sequence of sequences.
RECURSIVE Concat(_)
Concat(seqs) ==
    IF seqs = <<>> THEN <<>>
    ELSE Concat(SubSeq(seqs, 1, Len(seqs) - 1)) \o seqs[Len(seqs)]

\* C9: in a map_range call over a chain that reaches the target, every hop makes
\* the working set the concatenation, in order, of ranges_for of each range of the
\* working set before it, and the lengths of the working set after every hop, and
\* of the result, sum to the length of the range the call was given.
C9_MapRangeKeepsLength ==
    [][(/\ pc \in {"map_range", "map_range_body"}
        /\ Reaches(call.source_kind, call.target_kind, Cardinality(Kinds)))
       =>
        /\ (pc = "map_range_body" /\ maps_by_source[current_kind] # None) =>
              /\ mapped_ranges' =
                    Concat([i \in 1..Len(mapped_ranges) |->
                               ranges_for(maps_by_source[current_kind][1], mapped_ranges[i])])
              /\ SumOfLengths(mapped_ranges') = Length(call.range)
        /\ pc' = "idle" => SumOfLengths(ret') = Length(call.range)]_vars

\* C13: when the map has at least one rule and no rule's source overlaps the query,
\* ranges_for returns the single range equal to the query.
C13_NoOverlapIsIdentity ==
    (/\ call.op = "ranges_for"
     /\ CalledMap.ranges # <<>>
     /\ \A j \in 1..Len(CalledMap.ranges) :
            ~ranges_overlap(CalledMap.ranges[j].source, call.range))
        => ret = <<call.range>>

(***************************************************************************)
(* Properties of the index, under TreeSpec.                                *)
(***************************************************************************)
\* The nodes of the index whose rule's source overlaps the range.
OverlappingNodes(range) ==
    {n \in 1..Len(root) : ranges_overlap(root[n].range.source, range)}

\* The pair find_intersections owes for a rule whose source overlaps the range: the
\* part of the source inside the range, and its image.
SubInterval(rule, range) ==
    LET source == MkRange(max(rule.source.start, range.start),
                          min(rule.source.end, range.end))
    IN  MkRangePair(source, Image(rule, source))

\* C14: find_intersections(query) on an index made by new and inserts returns one
\* sub-interval for every stored rule whose source overlaps the query: every pair
\* is returned as many times as there are overlapping rules that owe it, so no
\* overlapping rule is skipped by the pruning of a child whose max is below
\* query.start.
C14_FindIntersectionsComplete ==
    call.op = "root.find_intersections" =>
        /\ Len(ret) = Cardinality(OverlappingNodes(call.range))
        /\ \A n \in OverlappingNodes(call.range) :
              LET owed == SubInterval(root[n].range, call.range)
              IN  Cardinality({i \in 1..Len(ret) : ret[i] = owed})
                     = Cardinality({m \in OverlappingNodes(call.range) :
                                       SubInterval(root[m].range, call.range) = owed})

\* find_intersections ran on an index of three rules, pruned a child whose max is
\* below the start of the query, and returned the sub-intervals of the root and of
\* a rule below a child it did not prune.
C14_Witness ==
    /\ call.op = "root.find_intersections"
    /\ Len(root) = 3
    /\ root[1].left # 0
    /\ root[root[1].left].max < call.range.start
    /\ root[1].right # 0
    /\ OverlappingNodes(call.range) = {1, root[1].right}
    /\ root[root[1].right].range.source.end = call.range.start
    /\ Len(ret) = 2

\* The nodes of the subtree of node n: n and, `fuel` levels down, the nodes below it.
RECURSIVE Subtree(_, _, _)
Subtree(tree, n, fuel) ==
    IF n = 0 \/ n > Len(tree) THEN {}
    ELSE IF fuel = 0 THEN {n}
    ELSE {n} \cup Subtree(tree, tree[n].left, fuel - 1)
             \cup Subtree(tree, tree[n].right, fuel - 1)

\* The largest number of a non-empty set of numbers.
Maximum(S) == CHOOSE x \in S : \A y \in S : y <= x

\* C15: in an index made by new and any inserts, the max of every node is the
\* largest source.end among the node's own rule and the rules of its subtree.
C15_MaxIsLargestEndOfSubtree ==
    \A n \in 1..Len(root) :
        root[n].max = Maximum({root[m].range.source.end : m \in Subtree(root, n, Len(root))})

\* An insert below a node with a child raised the max of the root and of the child
\* it went through: the new leaf has the largest end of the index.
C15_Witness ==
    /\ call.op = "root.insert"
    /\ Len(root) = 3
    /\ \E c \in {root[1].left, root[1].right} :
          /\ c = 2
          /\ 3 \in {root[2].left, root[2].right}
          /\ root[3].range.source.end > root[2].range.source.end
          /\ root[3].range.source.end > root[1].range.source.end
          /\ root[2].max = root[3].range.source.end
          /\ root[1].max = root[3].range.source.end

\* The index is a binary search tree on source.start: below the left child of a
\* node every start is smaller than the node's, below its right child every start
\* is the node's or larger.
SearchTree(tree) ==
    \A n \in 1..Len(tree) :
        /\ \A m \in Subtree(tree, tree[n].left, Len(tree)) :
               tree[m].range.source.start < tree[n].range.source.start
        /\ \A m \in Subtree(tree, tree[n].right, Len(tree)) :
               tree[m].range.source.start >= tree[n].range.source.start

\* The child slots of the tree that hold node c.
SlotsOf(tree, c) ==
    {s \in (1..Len(tree)) \X {"left", "right"} :
        (IF s[2] = "left" THEN tree[s[1]].left ELSE tree[s[1]].right) = c}

\* C16: the index is always a binary search tree on source.start with ties to the
\* right; an insert adds one node, a leaf holding the inserted rule, hung in one
\* child slot that was empty, and leaves the rule and the children of every node
\* that was there as they were; the rule given to new stays at the root.
C16_InsertKeepsSearchTree ==
    /\ [](SearchTree(root) /\ Subtree(root, 1, Len(root)) = 1..Len(root))
    /\ [][(call'.op = "RangeTreeNode::new" /\ call.op = "none")
             => (Len(root') = 1 /\ root'[1].range = call'.range)]_vars
    /\ [][(call'.op = "root.insert" /\ call.op = "none") =>
            /\ Len(root') = Len(root) + 1
            /\ root'[Len(root')].range = call'.range
            /\ root'[Len(root')].left = 0
            /\ root'[Len(root')].right = 0
            /\ Cardinality(SlotsOf(root', Len(root'))) = 1
            /\ \A n \in 1..Len(root) :
                  /\ root'[n].range = root[n].range
                  /\ root[n].left # 0 => root'[n].left = root[n].left
                  /\ root[n].right # 0 => root'[n].right = root[n].right
                  /\ root'[n].left \in {root[n].left, Len(root')}
                  /\ root'[n].right \in {root[n].right, Len(root')}
            /\ root'[1].range = root[1].range]_vars

\* An insert hung a rule to the right of a node with the same source.start, in an
\* index whose root has a left child.
C16_Witness ==
    /\ call.op = "root.insert"
    /\ Len(root) = 3
    /\ root[1].left = 2
    /\ root[2].right = 3
    /\ root[3].range = call.range
    /\ root[3].range.source.start = root[2].range.source.start
    /\ root[3].range.source.end # root[2].range.source.end

\* C17: find_overlapping(query) on an index made by new and inserts returns a
\* stored rule whose source overlaps the source of the query when there is one,
\* and nothing only when there is none: the one descent, left when the left
\* child's max reaches query.start and right otherwise, passes by no subtree that
\* holds the only overlapping rules.
C17_FindOverlappingFindsOne ==
    call.op = "root.find_overlapping" =>
        /\ OverlappingNodes(call.range.source) # {} => ret # None
        /\ ret # None =>
              \E n \in OverlappingNodes(call.range.source) : root[n].range = ret[1]

\* find_overlapping went past a root that does not overlap the query and down to
\* its left child, the only rule that overlaps it, leaving the right child of the
\* root aside.
C17_Witness ==
    /\ call.op = "root.find_overlapping"
    /\ Len(root) = 3
    /\ root[1].left # 0
    /\ root[1].right # 0
    /\ Cardinality(OverlappingNodes(call.range.source)) = 1
    /\ root[1].left \in OverlappingNodes(call.range.source)
    /\ ret = Some(root[root[1].left].range)

(***************************************************************************)
(* Properties of the interval arithmetic, under IntervalSpec.              *)
(***************************************************************************)
\* C18: subrange(rule, sub) returns a pair exactly when rule.source.start <=
\* sub.start and rule.source.end >= sub.end, and nothing otherwise; the source of
\* the pair is sub and its target starts at rule.target.start + (sub.start -
\* rule.source.start) and ends len(sub) further, so it is as long as sub, and it
\* lies inside rule.target when the rule's source and target are equally long.
C18_SubrangeMovesByOffset ==
    call.op = "subrange" =>
        LET rule == call.self
            sub  == call.range
        IN  /\ (ret # None) <=>
                   (rule.source.start <= sub.start /\ rule.source.end >= sub.end)
            /\ ret # None =>
                  /\ ret[1].source = sub
                  /\ ret[1].target.start
                         = rule.target.start + (sub.start - rule.source.start)
                  /\ ret[1].target.end = ret[1].target.start + Length(sub)
                  /\ Length(ret[1].target) = Length(sub)
                  /\ Length(rule.source) = Length(rule.target)
                         => Within(ret[1].target, rule.target)

\* subrange returned the image of a non-empty range that starts after the start of
\* the rule's source and ends before its end.
C18_Witness ==
    /\ call.op = "subrange"
    /\ call.self.source.start < call.range.start
    /\ call.range.start < call.range.end
    /\ call.range.end < call.self.source.end
    /\ ret # None
    /\ ret[1].target.start > call.self.target.start
    /\ ret[1].target.end < call.self.target.end

\* C19: range_intersection(a, b) is defined exactly when a.start <= b.end and
\* b.start <= a.end, so also for ranges that only touch (a.end = b.start); it is
\* then max(a.start, b.start)..min(a.end, b.end), whose start is not after its end
\* for well-formed a and b; and range_intersection(b, a) is the same.
C19_RangeIntersectionIsMaxMin ==
    call.op = "range_intersection" =>
        LET a == call.r1
            b == call.r2
        IN  /\ (ret # None) <=> (a.start <= b.end /\ b.start <= a.end)
            /\ ret # None =>
                  /\ ret[1] = MkRange(max(a.start, b.start), min(a.end, b.end))
                  /\ ret[1].start <= ret[1].end
            /\ a.end = b.start => ret = Some(MkRange(b.start, b.start))
            /\ ret = range_intersection(b, a)

\* range_intersection was called on two non-empty ranges of which the second starts
\* where the first ends, and returned the empty range at that number.
C19_Witness ==
    /\ call.op = "range_intersection"
    /\ call.r1.start < call.r1.end
    /\ call.r2.start < call.r2.end
    /\ call.r1.end = call.r2.start
    /\ ret = Some(MkRange(call.r2.start, call.r2.start))

(***************************************************************************)
(* Properties of the index of interval_tree_test, under TestSpec.          *)
(***************************************************************************)
\* The query of interval_tree_test was made on the index holding its five rules.
TestQueryOnIndex ==
    /\ call.op = "root.find_intersections"
    /\ call.range = test_query
    /\ [n \in 1..Len(root) |-> root[n].range] = intervals

\* The query of interval_tree_test was made on a map built from its five rules.
TestQueryOnMap ==
    /\ call.op = "ranges_for"
    /\ call.range = test_query
    /\ CalledMap.ranges = intervals

\* C12 as stated: on the index of the five rules the query 120..300 returns the
\* image 70..150 of 120..200 and the range 200..300 unchanged, no rule but
\* 100..200 having a part in it.
C12_OnlyFirstRuleInQuery ==
    /\ TestQueryOnIndex =>
           ret = <<MkRangePair(MkRange(120, 200), MkRange(70, 150))>>
    /\ TestQueryOnMap => ret = <<MkRange(70, 150), MkRange(200, 300)>>

\* C12 amended: the rule 255..260 lies inside the query too.  find_intersections
\* returns 120..200 with image 70..150 and 255..260 with image 100..105, and
\* ranges_for returns 70..150, 200..255 unchanged, 100..105, 260..300 unchanged.
C12_TwoRulesInQuery ==
    /\ TestQueryOnIndex =>
           ret = << MkRangePair(MkRange(120, 200), MkRange(70, 150)),
                    MkRangePair(MkRange(255, 260), MkRange(100, 105)) >>
    /\ TestQueryOnMap =>
           ret = <<MkRange(70, 150), MkRange(200, 255), MkRange(100, 105), MkRange(260, 300)>>

\* ranges_for(120..300) on the map of the five rules returned four ranges, the
\* third of them the image of the rule 255..260.
C12_Witness ==
    /\ TestQueryOnMap
    /\ Len(ret) = 4
    /\ ret[3] = intervals[4].target

(***************************************************************************)
(* Properties of the reduction over seed ranges, under LocationSpec.       *)
(***************************************************************************)
\* The starts of all ranges that map_range(seed to location) produces for the seed
\* ranges of the call.
ProducedStarts ==
    UNION {{map_range(maps_by_source, call.seed_ranges[i], "Seed", "Location")[j].start :
               j \in 1..Len(map_range(maps_by_source, call.seed_ranges[i], "Seed", "Location"))} :
           i \in 1..Len(call.seed_ranges)}

\* C11: what find_smallest_location_ranges returns is the least start among all the
\* ranges that map_range(seed to location) produces for the given seed ranges, and
\* nothing when it produces no range at all.
C11_SmallestIsLeastStart ==
    (pc = "idle" /\ call.op = "find_smallest_location_ranges") =>
        IF ProducedStarts = {}
        THEN ret = None
        ELSE /\ ret # None
             /\ ret[1] \in ProducedStarts
             /\ \A x \in ProducedStarts : ret[1] <= x

\* find_smallest_location_ranges returned a start that map_range produced for the
\* second of two seed ranges, after at least one hop through a rule, and that is
\* below every start produced for the first.
C11_Witness ==
    /\ pc = "idle"
    /\ call.op = "find_smallest_location_ranges"
    /\ Len(call.seed_ranges) = 2
    /\ maps_by_source["Seed"] # None
    /\ ret # None
    /\ LET first == map_range(maps_by_source, call.seed_ranges[1], "Seed", "Location")
           second == map_range(maps_by_source, call.seed_ranges[2], "Seed", "Location")
       IN  /\ Len(first) >= 2
           /\ Len(second) >= 2
           /\ \A j \in 1..Len(first) : ret[1] < first[j].start
           /\ ret[1] # second[1].start
           /\ ret[1] # second[Len(second)].start

(***************************************************************************)
(* The range path against the scalar path, under PipeSpec.                 *)
(***************************************************************************)
\* No number lies in the sources of two rules of the list.
DisjointSources(ranges) ==
    \A i \in 1..Len(ranges), j \in 1..Len(ranges) :
        i # j => (\/ ranges[i].source.end <= ranges[j].source.start
                  \/ ranges[j].source.end <= ranges[i].source.start)

\* The least number of a non-empty set of numbers.
Minimum(S) == CHOOSE x \in S : \A y \in S : x <= y

\* C20: in a pipeline whose maps have rules with pairwise disjoint sources and whose
\* chain leads from the source kind to the target kind, the least start among the
\* ranges map_range returns for a non-empty range is the least number that map
\* returns for the numbers of the range.
C20_RangePathAgreesWithScalarPath ==
    (/\ pc = "idle"
     /\ call.op = "map_range"
     /\ Length(call.range) > 0
     /\ Reaches(call.source_kind, call.target_kind, Cardinality(Kinds))
     /\ \A k \in Kinds :
            maps_by_source[k] # None => DisjointSources(maps_by_source[k][1].ranges))
        =>
        /\ ret # <<>>
        /\ Minimum({ret[i].start : i \in 1..Len(ret)})
               = Minimum({HopByHop(MkValue(call.source_kind, p), call.target_kind)[1].number :
                             p \in call.range.start..(call.range.end - 1)})

(***************************************************************************)
(* Further properties of the category map, under Spec.                     *)
(***************************************************************************)
\* C21: for a non-empty query and rules with non-empty sources, ranges_for returns
\* no range of length zero: a rule whose source only touches the query
\* (source.end = query.start or source.start = query.end) adds no range to the
\* result.
C21_RangesForEmitsNoEmptyRange ==
    (/\ call.op = "ranges_for"
     /\ Length(call.range) > 0
     /\ \A j \in 1..Len(CalledMap.ranges) : Length(CalledMap.ranges[j].source) > 0)
        =>
        \A i \in 1..Len(ret) : Length(ret[i]) > 0

\* The positions of the rules of the called map whose source holds n.
Holding(n) ==
    {j \in 1..Len(CalledMap.ranges) : contains(CalledMap.ranges[j].source, n)}

\* A sequence back to front.
Reverse(s) == [i \in 1..Len(s) |-> s[Len(s) + 1 - i]]

\* C22: when the sources of several rules of a map hold the same number, value_for
\* applies the one that comes first in the rule list, whatever the shape of the
\* index: the result is the same with no index and with the index of the rules
\* inserted in the opposite order.
C22_FirstInListOrderWins ==
    (/\ call.op = "value_for"
     /\ call.value.kind = CalledMap.source_kind
     /\ Cardinality(Holding(call.value.number)) >= 2)
        =>
        /\ ret = RuleValue(CalledMap.ranges[Minimum(Holding(call.value.number))],
                           call.value.number)
        /\ ret = value_for([CalledMap EXCEPT !.range_tree = None], call.value)
        /\ ret = value_for([CalledMap EXCEPT !.range_tree =
                               build_range_tree(Reverse(CalledMap.ranges), 1, None)],
                           call.value)

\* value_for applied the first rule of the list to a number that the second rule
\* holds too, the second rule standing to the left of the first in the index and
\* moving the number elsewhere.
C22_Witness ==
    /\ call.op = "value_for"
    /\ call.value.kind = CalledMap.source_kind
    /\ Holding(call.value.number) = {1, 2}
    /\ CalledMap.ranges[2].source.start < CalledMap.ranges[1].source.start
    /\ CalledMap.range_tree[1].left = 2
    /\ RuleValue(CalledMap.ranges[2], call.value.number)
           # RuleValue(CalledMap.ranges[1], call.value.number)
    /\ ret = RuleValue(CalledMap.ranges[1], call.value.number)

(***************************************************************************)
(* Properties of NumberMapper::insert, under PipeSpec.                     *)
(***************************************************************************)
\* C23: the mapper holds at most one map per source kind, under the kind the map
\* starts from.  An insert puts its map in the place of the one registered for
\* the same source kind and leaves the maps of the other kinds as they are;
\* nothing but an insert changes the maps; and every hop of a map or map_range
\* walk goes through the map that is registered for the kind when the hop is made,
\* which is therefore the one inserted last for that kind.
C23_InsertReplaces ==
    /\ [](\A k \in DOMAIN maps_by_source :
              /\ Len(maps_by_source[k]) <= 1
              /\ maps_by_source[k] # None => maps_by_source[k][1].source_kind = k)
    /\ [][(call'.op = "insert" /\ call.op = "none") =>
            /\ maps_by_source'[call'.range_map.source_kind] = Some(call'.range_map)
            /\ \A k \in DOMAIN maps_by_source \ {call'.range_map.source_kind} :
                   maps_by_source'[k] = maps_by_source[k]]_vars
    /\ [][maps_by_source' # maps_by_source
             => (call'.op = "insert" /\ call.op = "none")]_vars
    /\ [][(pc = "map" /\ pc' = "map") =>
             mapped' = value_for(maps_by_source[mapped[1].kind][1], mapped[1])]_vars
    /\ [][(pc = "map_range_body" /\ maps_by_source[current_kind] # None) =>
             mapped_ranges'
                 = flat_map_ranges_for(maps_by_source[current_kind][1], mapped_ranges, 1)]_vars

\* An insert has put a map in the place of a different map registered for the same
\* source kind, while a map was registered for another kind.
C23_Witness ==
    /\ call.op = "insert"
    /\ call.replaced # None
    /\ call.replaced # Some(call.range_map)
    /\ maps_by_source[call.range_map.source_kind] = Some(call.range_map)
    /\ \E k \in Kinds \ {call.range_map.source_kind} : maps_by_source[k] # None

====
